---- MODULE Spec2Model ----
(***************************************************************************)
(* Elevator-Emulator.c: the control loop of start_elevator_emulator() and  *)
(* handle_inputs(), as a state machine.                                    *)
(*                                                                         *)
(* One pass of the while(true) loop is four steps, taken in the order of   *)
(* the code and sequenced by pc:                                           *)
(*   "service"  the clock advances and an input may arrive;                *)
(*              service_led_animation(); speed = get_speed();              *)
(*   "motion"   the timed motion block and the status print-out;           *)
(*   "poll"     handle_inputs(): button and serial read, the busy guard,   *)
(*              the destination switch read;                               *)
(*   "select"   handle_inputs(): the if/else chain that accepts a request. *)
(*                                                                         *)
(* Time.  The program uses the millisecond clock only in differences       *)
(* get_current_time() - stamp, computed in uint32_t.  The model holds, for *)
(* each stamp, that difference as of the latest clock reading:             *)
(* move_elapsed for time_since_move, led_elapsed for led_anim_start.       *)
(* Writing a stamp sets the difference to 0; a clock reading d ms later    *)
(* adds d.  The differences and the two uint32_t counters stay far below   *)
(* 2^32 in every run of the model, so no wrap-around is modelled.          *)
(*                                                                         *)
(* Outputs.  PORTC's door LEDs (leds), the status panel (terminal) and the *)
(* beep() calls of the latest step (beeps) are state.  The LED matrix      *)
(* (draw_elevator, draw_floors, the pixels of draw_traveller) and the      *)
(* seven-segment multiplexing (multiplex_ssd) only write to the display    *)
(* and are left out; last_direction and last_traveller_floor are kept.     *)
(***************************************************************************)
EXTENDS Integers, Sequences, FiniteSets, TLC

VARIABLES
    pc,                       \* position in the loop body
    current_position,         \* row of the cabin, 4 rows per floor
    destination,
    current_floor,
    traveller_dest,
    last_traveller_floor,
    direction,
    moved,
    traveller_present,
    traveller_onboard,
    traveller_floor,
    speed,
    last_direction,
    floors_with_traveller,
    floors_without_traveller,
    led_animating,
    move_elapsed,             \* get_current_time() - time_since_move
    led_elapsed,              \* get_current_time() - led_anim_start
    leds,                     \* the LED_L0..LED_L3 bits of PORTC that are set
    terminal,                 \* what the status panel shows
    beeps,                    \* the beep() calls of the latest step
    pending,                  \* input waiting to be read, by when it arrived
    taken,                    \* history: pending as this pass's handle_inputs() found it
    btn,                      \* handle_inputs local
    serial_input,             \* handle_inputs local
    switch_bits,              \* handle_inputs local
    projected,                \* the latest step printed the status panel
    crossings,                \* history: floor boundaries reached since startup
    accepted                  \* history: the request in flight, as accepted

vars == <<pc, current_position, destination, current_floor, traveller_dest,
          last_traveller_floor, direction, moved, traveller_present,
          traveller_onboard, traveller_floor, speed, last_direction,
          floors_with_traveller, floors_without_traveller, led_animating,
          move_elapsed, led_elapsed, leds, terminal, beeps, btn, serial_input,
          switch_bits, projected, crossings, accepted, pending, taken>>

cabin == <<current_position, destination, current_floor, direction, moved,
           last_direction>>
request == <<traveller_present, traveller_onboard, traveller_floor,
             traveller_dest, last_traveller_floor>>
counters == <<floors_with_traveller, floors_without_traveller, crossings>>
door == <<led_animating, led_elapsed, leds>>
locals == <<btn, serial_input, switch_bits>>

----------------------------------------------------------------------------
(* Program constants *)

UNDEF_FLOOR == -1
FLOOR_0 == 0
FLOOR_1 == 4
FLOOR_2 == 8
FLOOR_3 == 12
Floors == {FLOOR_0, FLOOR_1, FLOOR_2, FLOOR_3}

FastSpeed == 100
SlowSpeed == 250

DoorOpenAt == 400
DoorClosingAt == 800
DoorDoneAt == 1200

ChimeFreq == 500
ChimeMs == 100
AckFreq == 3000
AckMs == 50

NO_BUTTON_PUSHED == -1
Buttons == 0..3
NoChar == -1
Digit0 == 48
CharS == 115

----------------------------------------------------------------------------
(* Bounds of the model *)

\* Button and serial events stop arriving once this many floor boundaries
\* have been counted; the cabin then finishes the request in flight.
MaxCrossings == 3

\* Milliseconds between two passes of the loop.
Delays == {0, 100, 300}
SpeedPins == {0, 1}
SerialChars == {NoChar, Digit0, Digit0 + 1, Digit0 + 2, Digit0 + 3, CharS}
ButtonEvents == {NO_BUTTON_PUSHED} \cup Buttons
SwitchValues == 0..3

----------------------------------------------------------------------------
(* Helpers, one per decision of the code *)

\* get_speed(): bit 4 of PIND selects the tick interval.
get_speed(pin) == IF pin = 1 THEN SlowSpeed ELSE FastSpeed

\* The condition of the motion block: get_current_time() - time_since_move > speed.
TickDue(elapsed, spd) == elapsed > spd

\* Variants of NextPosition (each a slip the claims must detect).
NextPosition_UpOnly(pos, dest) ==
    IF dest > pos THEN pos + 1 ELSE pos

NextPosition_FloorStep(pos, dest) ==
    IF dest > pos THEN pos + 4
    ELSE IF dest < pos THEN pos - 4
    ELSE pos

NextPosition_UpWhenEqual(pos, dest) ==
    IF dest >= pos THEN pos + 1 ELSE pos - 1

\* One row toward the destination, or none.
NextPosition(pos, dest) ==
    IF dest > pos THEN pos + 1
    ELSE IF dest < pos THEN pos - 1
    ELSE pos

\* direction is assigned in the two moving branches only.
NextDirection(pos, dest, dir) ==
    IF dest > pos THEN "Up"
    ELSE IF dest < pos THEN "Down"
    ELSE dir

\* next_seg: SEG_G unless a moving branch sets it.
NextSeg(pos, dest) ==
    IF dest > pos THEN "SEG_A"
    ELSE IF dest < pos THEN "SEG_D"
    ELSE "SEG_G"

\* Variant of FloorReached: every row counted as a floor.
FloorReached_EveryRow(pos, pos1) == pos1 # pos

\* Variant of FloorReached: the floor test outside the moving branches.
FloorReached_AnyTick(pos, pos1) == pos1 % 4 = 0

\* Inside a moving branch: the row just reached is a floor.
FloorReached(pos, pos1) == pos1 # pos /\ pos1 % 4 = 0

\* Variant of PickupDue: the cabin at or above the traveller's floor.
PickupDue_AtOrAbove(present, pos, tfloor) == present /\ pos >= tfloor

\* Variant of PickupDue: the traveller_present test left out.
PickupDue_NoPresentTest(present, pos, tfloor) == pos = tfloor

PickupDue(present, pos, tfloor) == present /\ pos = tfloor

DropDue(onboard, pos, dest) == onboard /\ pos = dest

\* Variant of DoorPattern: the window boundaries compared with <=.
DoorPattern_Late(dt) ==
    IF dt <= DoorOpenAt THEN {"LED_L1", "LED_L2"}
    ELSE IF dt <= DoorClosingAt THEN {"LED_L0", "LED_L3"}
    ELSE IF dt <= DoorDoneAt THEN {"LED_L1", "LED_L2"}
    ELSE {"LED_L1", "LED_L2"}

\* The LED pattern service_led_animation() writes for an elapsed time dt.
DoorPattern(dt) ==
    IF dt < DoorOpenAt THEN {"LED_L1", "LED_L2"}
    ELSE IF dt < DoorClosingAt THEN {"LED_L0", "LED_L3"}
    ELSE IF dt < DoorDoneAt THEN {"LED_L1", "LED_L2"}
    ELSE {"LED_L1", "LED_L2"}

DoorRunning(dt) == dt < DoorDoneAt

\* Variants of InputsBlocked: one half of the guard left out.
InputsBlocked_PresentOnly == traveller_present

InputsBlocked_FloorOnly == current_floor # destination

\* The early return of handle_inputs().
InputsBlocked == traveller_present \/ current_floor # destination

\* Variant of SwitchFloor: the two switch bits read in reverse order.
SwitchFloor_Reversed(bits) ==
    CASE bits = 0 -> FLOOR_0
      [] bits = 1 -> FLOOR_2
      [] bits = 2 -> FLOOR_1
      [] bits = 3 -> FLOOR_3
      [] OTHER -> UNDEF_FLOOR

\* switch (switch_bits): the drop floor selected by the two switch bits.
SwitchFloor(bits) ==
    CASE bits = 0 -> FLOOR_0
      [] bits = 1 -> FLOOR_1
      [] bits = 2 -> FLOOR_2
      [] bits = 3 -> FLOOR_3
      [] OTHER -> UNDEF_FLOOR

\* Variant of SelectedFloor: the chain ending in a plain else for floor 3.
SelectedFloor_PlainElse(b, c) ==
    IF b = 0 \/ c = Digit0 THEN FLOOR_0
    ELSE IF b = 1 \/ c = Digit0 + 1 THEN FLOOR_1
    ELSE IF b = 2 \/ c = Digit0 + 2 THEN FLOOR_2
    ELSE FLOOR_3

\* Variant of SelectedFloor: the third branch assigning the fourth floor.
SelectedFloor_Slip(b, c) ==
    IF b = 0 \/ c = Digit0 THEN FLOOR_0
    ELSE IF b = 1 \/ c = Digit0 + 1 THEN FLOOR_1
    ELSE IF b = 2 \/ c = Digit0 + 2 THEN FLOOR_3
    ELSE IF b = 3 \/ c = Digit0 + 3 THEN FLOOR_3
    ELSE UNDEF_FLOOR

\* The if/else chain of handle_inputs(): the floor whose branch is taken.
SelectedFloor(b, c) ==
    IF b = 0 \/ c = Digit0 THEN FLOOR_0
    ELSE IF b = 1 \/ c = Digit0 + 1 THEN FLOOR_1
    ELSE IF b = 2 \/ c = Digit0 + 2 THEN FLOOR_2
    ELSE IF b = 3 \/ c = Digit0 + 3 THEN FLOOR_3
    ELSE UNDEF_FLOOR

\* Variant of OwnFloor: the own-floor test left out.
OwnFloor_NotTested(dest, sel) == FALSE

\* if (dest == FLOOR_n) return: the traveller asks for the floor it is on.
OwnFloor(dest, sel) == dest = sel

\* Variant of StatusDue: the flag ignored, the panel printed on every pass.
StatusDue_Always(flag) == TRUE

\* if (moved): the status panel is printed.
StatusDue(flag) == flag

\* Variant of MarkerFloor: the else branch of draw_traveller() left out.
MarkerFloor_NoElse(present, tfloor) == tfloor

\* draw_traveller(): the floor whose marker is on the display afterwards.
MarkerFloor(present, tfloor) == IF present THEN tfloor ELSE UNDEF_FLOOR

\* Variant of Drained: the guard tested before the inputs are read.
Drained_IfOpen(waiting, blocked) == IF blocked THEN waiting ELSE "none"

\* button_pushed() and fgetc() run before the guard: whatever was waiting is
\* taken, whether or not the guard then returns.
Drained(waiting, blocked) == "none"

\* A request is active or the cabin is travelling.
Busy == traveller_present \/ traveller_onboard \/ current_position # destination

\* The button interrupt and the serial receiver, which run while the loop
\* waits: a press or a character that arrives is held for the next
\* button_pushed() and fgetc().  What it is, is drawn when it is read; kept
\* with it is whether the cabin was busy when it arrived.
Arrived(waiting, arrives) ==
    IF ~arrives THEN waiting
    ELSE IF Busy THEN "busy" ELSE "idle"

\* Button and serial events are offered while the counters are below the bound.
EventsOffered == floors_with_traveller + floors_without_traveller < MaxCrossings

----------------------------------------------------------------------------
(* The state after start_elevator_emulator() has run up to its loop *)

Init ==
    /\ pc = "service"
    /\ current_position = FLOOR_0
    /\ destination = FLOOR_0
    /\ current_floor = FLOOR_0
    /\ direction = "Stationary"
    /\ moved = TRUE
    /\ traveller_dest = UNDEF_FLOOR
    /\ last_traveller_floor = UNDEF_FLOOR
    /\ traveller_present = FALSE
    /\ traveller_onboard = FALSE
    /\ traveller_floor = FLOOR_0        \* zero-initialised global
    /\ speed = 0                        \* zero-initialised global
    /\ last_direction = "SEG_G"
    /\ floors_with_traveller = 0
    /\ floors_without_traveller = 0
    /\ led_animating = FALSE
    /\ move_elapsed = 0
    /\ led_elapsed = 0                  \* not read before an animation starts
    /\ leds = {}
    /\ terminal = <<>>
    /\ beeps = <<>>
    /\ btn = NO_BUTTON_PUSHED
    /\ serial_input = NoChar
    /\ switch_bits = 0
    /\ pending = "none"
    /\ taken = "none"
    /\ projected = FALSE
    /\ crossings = 0
    /\ accepted = <<>>

----------------------------------------------------------------------------
(* Loop top: the clock is read d ms after the previous reading *)

ServiceLed(d) ==
    IF led_animating
    THEN LET dt == led_elapsed + d IN
         /\ led_elapsed' = dt
         /\ leds' = DoorPattern(dt)
         /\ led_animating' = DoorRunning(dt)
    ELSE UNCHANGED door

Service(d, pin, arrives) ==
    /\ pc = "service"
    /\ pending' = Arrived(pending, arrives)
    /\ taken' = "none"
    /\ ServiceLed(d)
    /\ move_elapsed' = move_elapsed + d
    /\ speed' = get_speed(pin)
    /\ beeps' = <<>>
    /\ pc' = "motion"
    /\ projected' = FALSE
    /\ UNCHANGED <<cabin, request, counters, terminal, locals, accepted>>

----------------------------------------------------------------------------
(* The motion block and the status print-out *)

StatusLine(floor, dir, with, without) == <<floor \div 4, dir, with, without>>

Motion ==
    /\ pc = "motion"
    /\ UNCHANGED <<pending, taken>>
    /\ pc' = "poll"
    /\ UNCHANGED <<speed, locals, leds>>
    /\ IF TickDue(move_elapsed, speed)
       THEN LET pos1     == NextPosition(current_position, destination)
                reached  == FloorReached(current_position, pos1)
                floor1   == IF reached THEN pos1 ELSE current_floor
                with1    == IF reached /\ traveller_onboard
                            THEN floors_with_traveller + 1
                            ELSE floors_with_traveller
                without1 == IF reached /\ ~traveller_onboard
                            THEN floors_without_traveller + 1
                            ELSE floors_without_traveller
                dir1     == NextDirection(current_position, destination, direction)
                moved1   == moved \/ pos1 # current_position
                pickup   == PickupDue(traveller_present, pos1, traveller_floor)
                onboard1 == traveller_onboard \/ pickup
                dest1    == IF pickup THEN traveller_dest ELSE destination
                drop     == DropDue(onboard1, pos1, dest1)
            IN
            /\ current_position' = pos1
            /\ current_floor' = floor1
            /\ floors_with_traveller' = with1
            /\ floors_without_traveller' = without1
            /\ crossings' = IF pos1 # current_position /\ pos1 % 4 = 0
                            THEN crossings + 1 ELSE crossings
            /\ direction' = dir1
            /\ traveller_present' = (traveller_present /\ ~pickup)
            /\ traveller_onboard' = (onboard1 /\ ~drop)
            /\ destination' = dest1
            /\ traveller_dest' = IF pickup THEN UNDEF_FLOOR ELSE traveller_dest
            /\ last_traveller_floor' =
                   IF pickup THEN MarkerFloor(FALSE, traveller_floor)
                   ELSE last_traveller_floor
            /\ traveller_floor' = traveller_floor
            /\ beeps' = (IF pickup THEN <<(<<ChimeFreq, ChimeMs>>)>> ELSE <<>>)
                        \o (IF drop THEN <<(<<ChimeFreq, ChimeMs>>)>> ELSE <<>>)
            /\ IF pickup \/ drop
               THEN led_animating' = TRUE /\ led_elapsed' = 0
               ELSE UNCHANGED <<led_animating, led_elapsed>>
            /\ last_direction' = NextSeg(current_position, destination)
            /\ move_elapsed' = 0
            /\ terminal' = IF StatusDue(moved1)
                           THEN StatusLine(floor1, dir1, with1, without1)
                           ELSE terminal
            /\ projected' = StatusDue(moved1)
            /\ moved' = IF StatusDue(moved1) THEN FALSE ELSE moved1
            /\ accepted' = IF drop THEN <<>> ELSE accepted
       ELSE /\ terminal' = IF StatusDue(moved)
                           THEN StatusLine(current_floor, direction,
                                           floors_with_traveller,
                                           floors_without_traveller)
                           ELSE terminal
            /\ projected' = StatusDue(moved)
            /\ moved' = IF StatusDue(moved) THEN FALSE ELSE moved
            /\ UNCHANGED <<current_position, destination, current_floor,
                           direction, last_direction, request, counters,
                           led_animating, led_elapsed, move_elapsed, beeps,
                           accepted>>

----------------------------------------------------------------------------
(* handle_inputs() *)

\* The early return: the button event and the serial character, if any, have
\* been read into the locals and are dropped with them.
PollBlocked ==
    /\ pc = "poll"
    /\ InputsBlocked
    /\ pc' = "service"
    /\ pending' = Drained(pending, TRUE)
    /\ taken' = pending
    /\ projected' = FALSE
    /\ UNCHANGED <<locals, cabin, request, counters, door, speed, move_elapsed,
                   terminal, beeps, accepted>>

\* Past the guard: b and c are what button_pushed() and fgetc() returned
\* (NO_BUTTON_PUSHED, NoChar when nothing was waiting), sw is what
\* (PIND >> 5) & 0b11 reads.
PollRead(b, c, sw) ==
    /\ pc = "poll"
    /\ ~InputsBlocked
    /\ pc' = "select"
    /\ (pending = "none") = (b = NO_BUTTON_PUSHED /\ c = NoChar)
    /\ pending' = Drained(pending, FALSE)
    /\ taken' = pending
    /\ btn' = b
    /\ serial_input' = c
    /\ switch_bits' = sw
    /\ projected' = FALSE
    /\ UNCHANGED <<cabin, request, counters, door, speed, move_elapsed,
                   terminal, beeps, accepted>>

\* The switch statement and the if/else chain.
Select ==
    /\ pc = "select"
    /\ UNCHANGED <<pending, taken>>
    /\ pc' = "service"
    /\ btn' = NO_BUTTON_PUSHED
    /\ serial_input' = NoChar
    /\ switch_bits' = 0
    /\ projected' = FALSE
    /\ LET dest == SwitchFloor(switch_bits)
           sel  == SelectedFloor(btn, serial_input)
       IN
       IF sel # UNDEF_FLOOR /\ ~OwnFloor(dest, sel)
       THEN /\ traveller_dest' = dest
            /\ traveller_floor' = sel
            /\ traveller_present' = TRUE
            /\ destination' = sel
            /\ last_traveller_floor' = MarkerFloor(TRUE, sel)
            /\ beeps' = <<(<<AckFreq, AckMs>>)>>
            /\ accepted' = <<current_position, switch_bits,
                             floors_with_traveller, floors_without_traveller>>
            /\ UNCHANGED <<current_position, current_floor, direction, moved,
                           last_direction, traveller_onboard>>
       ELSE UNCHANGED <<cabin, request, beeps, accepted>>
    /\ UNCHANGED <<counters, door, speed, move_elapsed, terminal>>

----------------------------------------------------------------------------

Next ==
    \/ \E d \in Delays, pin \in SpeedPins, arrives \in BOOLEAN :
           /\ arrives => EventsOffered
           /\ Service(d, pin, arrives)
    \/ Motion
    \/ PollBlocked
    \/ \E b \in ButtonEvents, c \in SerialChars, sw \in SwitchValues :
           PollRead(b, c, sw)
    \/ Select

Spec == Init /\ [][Next]_vars

\* The loop never stops, and the millisecond clock keeps advancing: of the
\* passes through the loop top, infinitely many read a later time.
ClockAdvances ==
    \E d \in Delays \ {0}, pin \in SpeedPins, arrives \in BOOLEAN :
        /\ arrives => EventsOffered
        /\ Service(d, pin, arrives)

FairSpec == Spec /\ WF_vars(Next) /\ SF_vars(ClockAdvances)

----------------------------------------------------------------------------
(* Claims *)

Idle == ~traveller_present /\ ~traveller_onboard /\ current_position = destination

ButtonFloor(b) == 4 * b
DigitFloor(c) == 4 * (c - Digit0)
Digits == {Digit0, Digit0 + 1, Digit0 + 2, Digit0 + 3}

\* C1: request exclusivity: traveller_present and traveller_onboard are never
\* both true.
C1_RequestExclusive == ~(traveller_present /\ traveller_onboard)

\* A pickup has just happened: the traveller is onboard and the chime sounded.
C1_Witness ==
    /\ traveller_onboard
    /\ ~traveller_present
    /\ beeps = <<(<<ChimeFreq, ChimeMs>>)>>

\* C2: no dual intake: a call of handle_inputs() made while a traveller is
\* waiting or onboard leaves traveller_present, traveller_floor,
\* traveller_dest and destination as they were, whatever was read.
C2_NoDualIntake ==
    [][(pc \in {"poll", "select"} /\ (traveller_present \/ traveller_onboard))
          => UNCHANGED <<traveller_present, traveller_floor, traveller_dest,
                         destination>>]_vars

\* handle_inputs() has been called, and has returned, in the pass of the
\* loop that picked the traveller up.
C2_Witness ==
    /\ pc = "service"
    /\ traveller_onboard
    /\ beeps = <<(<<ChimeFreq, ChimeMs>>)>>

\* C3: under fair scheduling every accepted request is served: a waiting
\* traveller is eventually onboard with the cabin at the pickup floor, and an
\* onboard traveller is eventually set down with the cabin idle at its
\* destination and handle_inputs() open to a new request; that destination is
\* the requested one: it is taken from traveller_dest at pickup and kept
\* until the traveller is set down, which happens at that floor only.
C3_EventuallyServed ==
    /\ traveller_present ~> (traveller_onboard /\ current_position = traveller_floor)
    /\ traveller_onboard ~> (Idle /\ ~InputsBlocked)
    /\ [][(traveller_present /\ traveller_onboard') => destination' = traveller_dest]_vars
    /\ [][traveller_onboard => destination' = destination]_vars
    /\ [][(traveller_onboard /\ ~traveller_onboard') => current_position' = destination]_vars

\* A traveller picked up on floor 2 has just been set down on floor 0, and
\* the cabin is idle there.
C3_Witness ==
    /\ Idle
    /\ ~InputsBlocked
    /\ current_position = FLOOR_0
    /\ traveller_floor = FLOOR_2
    /\ floors_with_traveller >= 2
    /\ beeps = <<(<<ChimeFreq, ChimeMs>>)>>

\* C4: single motion step per tick: no step changes current_position by more
\* than one row, however long ago the last move was, and every execution of
\* the motion block restarts the interval from the current time.
C4_SingleStep ==
    [][/\ current_position' - current_position \in {-1, 0, 1}
       /\ (pc = "motion" /\ move_elapsed > speed) => move_elapsed' = 0]_vars

\* The motion block is about to run three or more intervals late with the
\* cabin two floors away from its destination.
C4_Witness ==
    /\ pc = "motion"
    /\ move_elapsed >= 3 * speed
    /\ destination - current_position >= 8

\* C5: position bound: 0 <= current_position <= 12.
C5_PositionBound == current_position >= FLOOR_0 /\ current_position <= FLOOR_3

\* The cabin has fetched a traveller from the top floor (row 12) and has
\* come all the way down to the bottom floor (row 0) with it.
C5_Witness ==
    /\ Idle
    /\ current_position = FLOOR_0
    /\ traveller_floor = FLOOR_3
    /\ direction = "Down"
    /\ floors_with_traveller >= 3

\* C6: destination is always floor-aligned: one of 0, 4, 8, 12, also after
\* the pickup has copied traveller_dest into it.
C6_DestinationAligned == destination \in Floors

\* A pickup has copied traveller_dest into destination and reset it.
C6_Witness ==
    /\ traveller_onboard
    /\ traveller_dest = UNDEF_FLOOR
    /\ destination # traveller_floor

\* C7: input tie-break: when one poll reads a button event for floor A and a
\* serial digit for another floor B, with the destination switch on neither,
\* the request accepted is for the button's floor A.
C7_ButtonFirst ==
    [][(/\ pc = "select"
        /\ btn \in Buttons
        /\ serial_input \in Digits
        /\ DigitFloor(serial_input) # ButtonFloor(btn)
        /\ traveller_present'
        /\ traveller_dest' \notin {ButtonFloor(btn), DigitFloor(serial_input)})
          => traveller_floor' = ButtonFloor(btn)]_vars

\* C8: tick threshold: a pass of the loop performs the motion step if and
\* only if the elapsed time is at least speed; below it, position, floor,
\* destination, direction, the request flags, both counters and the move
\* timestamp are left alone.
C8_TickThreshold ==
    [][pc = "motion" =>
          IF move_elapsed >= speed
          THEN move_elapsed' = 0
          ELSE UNCHANGED <<current_position, current_floor, destination,
                           direction, traveller_present, traveller_onboard,
                           floors_with_traveller, floors_without_traveller,
                           move_elapsed>>]_vars

\* C9: direction is derived on every motion tick from
\* sign(destination - position), Stationary included, and that is what the
\* status panel reports after the cabin has arrived.
C9_DirectionDerived ==
    [][(pc = "motion" /\ move_elapsed > speed) =>
          direction' = IF destination > current_position THEN "Up"
                       ELSE IF destination < current_position THEN "Down"
                       ELSE "Stationary"]_vars

\* C10: counter monotonicity and accounting: neither counter ever decreases;
\* on a step that brings current_position to a multiple of 4 exactly one of
\* them grows, by 1; no other step changes them; their sum is the number of
\* floor boundaries reached since startup.
C10_CounterAccounting ==
    /\ [](floors_with_traveller + floors_without_traveller = crossings)
    /\ [][/\ floors_with_traveller' >= floors_with_traveller
          /\ floors_without_traveller' >= floors_without_traveller
          /\ IF current_position' # current_position /\ current_position' % 4 = 0
             THEN floors_with_traveller' + floors_without_traveller'
                      = floors_with_traveller + floors_without_traveller + 1
             ELSE /\ floors_with_traveller' = floors_with_traveller
                  /\ floors_without_traveller' = floors_without_traveller]_vars

\* Floors have been counted both with and without a traveller, and the cabin
\* rests on a floor while the motion block keeps running.
C10_Witness ==
    /\ floors_with_traveller > 0
    /\ floors_without_traveller > 0
    /\ Idle
    /\ pc = "poll"
    /\ move_elapsed = 0

\* Distance in rows between two floors.
Dist(a, b) == IF a >= b THEN a - b ELSE b - a

\* accepted = <<cabin row, switch bits, floors_with_traveller,
\* floors_without_traveller>> as they were when handle_inputs() accepted
\* the request in flight.
AcceptedAt == accepted[1]
AcceptedDrop == 4 * accepted[2]
AcceptedWith == accepted[3]
AcceptedWithout == accepted[4]

Chime == <<ChimeFreq, ChimeMs>>
Ack == <<AckFreq, AckMs>>

\* C11: over one request accepted with the cabin idle at floor c, pickup
\* floor p and drop floor d, the empty counter has grown by |p - c| floors
\* and the onboard counter by nothing when the traveller boards (the arrival
\* at p is counted as empty), and by the drop-off the empty counter has
\* grown by exactly |p - c| and the onboard counter by exactly |d - p| (the
\* arrival at d is counted as onboard).
C11_CounterAttribution ==
    /\ [][(traveller_present /\ ~traveller_present') =>
             /\ accepted # <<>>
             /\ 4 * (floors_without_traveller' - AcceptedWithout)
                    = Dist(traveller_floor, AcceptedAt)
             /\ floors_with_traveller' = AcceptedWith]_vars
    /\ [][(traveller_onboard /\ ~traveller_onboard') =>
             /\ accepted # <<>>
             /\ 4 * (floors_without_traveller' - AcceptedWithout)
                    = Dist(traveller_floor, AcceptedAt)
             /\ 4 * (floors_with_traveller' - AcceptedWith)
                    = Dist(AcceptedDrop, traveller_floor)]_vars

\* The request c = 0, p = 1, d = 2 has just ended with its drop-off: one
\* floor counted empty, one counted onboard.
C11_Witness ==
    /\ Idle
    /\ beeps = <<Chime>>
    /\ current_position = FLOOR_2
    /\ traveller_floor = FLOOR_1
    /\ floors_without_traveller = 1
    /\ floors_with_traveller = 1

\* The floors named by the inputs the latest poll has read.
Named ==
    {f \in Floors : \/ (btn \in Buttons /\ ButtonFloor(btn) = f)
                    \/ (serial_input \in Digits /\ DigitFloor(serial_input) = f)}

\* C12: a pickup selection for the floor the destination switch selects is
\* rejected silently, for every floor 0..3: traveller_present,
\* traveller_floor, traveller_dest, destination, the position and the
\* counters are unchanged and no tone is emitted.  (The selection is the
\* one floor the button, the digit, or both name.)
C12_OwnFloorRejected ==
    [][\A p \in Floors :
          (pc = "select" /\ Named = {p} /\ 4 * switch_bits = p) =>
             /\ UNCHANGED <<traveller_present, traveller_floor,
                            traveller_dest, destination, current_position,
                            floors_with_traveller, floors_without_traveller>>
             /\ UNCHANGED beeps]_vars

\* handle_inputs() has read the digit of floor 3 with the switch at floor 3,
\* the cabin idle at another floor: the chain is about to reject it.
C12_Witness ==
    /\ pc = "select"
    /\ btn = NO_BUTTON_PUSHED
    /\ serial_input = Digit0 + 3
    /\ switch_bits = 3
    /\ current_position = FLOOR_1

\* C13: current_floor is assigned only on a tick whose resulting position is
\* a multiple of 4, and is set to that position; it is always one of 0, 4,
\* 8, 12, it equals the position whenever the position is a multiple of 4,
\* and between floors it is the floor last visited, less than 4 rows away.
C13_FloorAligned ==
    /\ [](/\ current_floor \in Floors
          /\ (current_position % 4 = 0 => current_floor = current_position)
          /\ Dist(current_floor, current_position) < 4)
    /\ [][current_floor' # current_floor =>
             /\ pc = "motion"
             /\ current_position' % 4 = 0
             /\ current_floor' = current_position']_vars
    /\ [][current_position' % 4 # 0 =>
             /\ current_floor' = current_floor
             /\ (current_position % 4 = 0 =>
                    current_floor' = current_position)]_vars

\* The cabin is between floors 2 and 1 on its way down from floor 2.
C13_Witness ==
    /\ current_position = FLOOR_1 + 2
    /\ current_floor = FLOOR_2
    /\ destination < current_position

\* C14: handle_inputs() accepts a request only with the cabin stopped at a
\* floor (current_position = destination, a multiple of 4) and no request
\* active; in every reachable state current_floor = destination implies
\* current_position = destination.
C14_IntakeWhenIdle ==
    /\ [](current_floor = destination => current_position = destination)
    /\ [][(~traveller_present /\ traveller_present') =>
             /\ pc = "select"
             /\ current_position = destination
             /\ current_position % 4 = 0
             /\ ~traveller_onboard]_vars

\* A request has just been accepted with the cabin standing at floor 2.
C14_Witness ==
    /\ traveller_present
    /\ beeps = <<Ack>>
    /\ accepted # <<>>
    /\ AcceptedAt = FLOOR_2
    /\ current_position = FLOOR_2

\* C15: the switch value read by the handle_inputs() call that accepts a
\* request is the floor where that traveller is dropped: it becomes
\* traveller_dest, then destination at the pickup, and traveller_onboard
\* becomes false only with the cabin at that floor; from acceptance to
\* drop-off the switch is not read again and the pickup floor, the drop
\* floor and the destination serving them do not change.
C15_DropFloorFixed ==
    /\ [][(~traveller_present /\ traveller_present') =>
             traveller_dest' = 4 * switch_bits]_vars
    /\ [](accepted # <<>> =>
             /\ traveller_present # traveller_onboard
             /\ traveller_present =>
                    (traveller_dest = AcceptedDrop /\ destination = traveller_floor)
             /\ traveller_onboard => destination = AcceptedDrop)
    /\ [][accepted # <<>> =>
             /\ traveller_floor' = traveller_floor
             /\ switch_bits' = switch_bits]_vars
    /\ [][(traveller_onboard /\ ~traveller_onboard') =>
             current_position' = AcceptedDrop]_vars

\* A traveller picked up at floor 1 has just been dropped at floor 3.
C15_Witness ==
    /\ Idle
    /\ beeps = <<Chime>>
    /\ current_position = FLOOR_3
    /\ traveller_floor = FLOOR_1

\* C16: on every motion tick after which traveller_present holds and the
\* cabin is at traveller_floor, a tick without movement included, the
\* request goes in one step to traveller_present = false,
\* traveller_onboard = true, destination = the requested drop floor, with
\* the chime and the start of the door animation; the traveller boards on
\* no other step.
C16_PickupTransition ==
    /\ [][(/\ pc = "motion"
           /\ TickDue(move_elapsed, speed)
           /\ traveller_present
           /\ current_position' = traveller_floor) =>
             /\ ~traveller_present'
             /\ traveller_onboard'
             /\ destination' = traveller_dest
             /\ beeps' = <<Chime>>
             /\ led_animating'
             /\ led_elapsed' = 0]_vars
    /\ [][((~traveller_onboard /\ traveller_onboard')
             \/ (traveller_present /\ ~traveller_present')) =>
             /\ pc = "motion"
             /\ TickDue(move_elapsed, speed)
             /\ traveller_present
             /\ current_position' = traveller_floor
             /\ traveller_onboard']_vars

\* The traveller has just boarded at floor 1, where the cabin stood when the
\* request was accepted: a pickup on a tick without movement.
C16_Witness ==
    /\ traveller_onboard
    /\ beeps = <<Chime>>
    /\ led_animating
    /\ led_elapsed = 0
    /\ accepted # <<>>
    /\ AcceptedAt = FLOOR_1
    /\ current_position = FLOOR_1

\* C17: pickup and drop-off never fire on the same tick: right after the
\* pickup the destination differs from the position and the traveller is
\* onboard; the traveller stays onboard for at least one tick interval and
\* at least one floor of travel.
C17_PickupDropApart ==
    /\ [][(traveller_present /\ ~traveller_present') =>
             /\ traveller_onboard'
             /\ destination' # current_position']_vars
    /\ [][(traveller_onboard /\ ~traveller_onboard') =>
             /\ ~traveller_present
             /\ pc = "motion"
             /\ TickDue(move_elapsed, speed)
             /\ current_position' # current_position
             /\ Dist(current_position', traveller_floor) >= 4
             /\ floors_with_traveller' >= AcceptedWith + 1]_vars

\* The traveller has just boarded at floor 2 and the cabin is bound for
\* floor 3: the tick of the pickup is over and the traveller is onboard.
C17_Witness ==
    /\ pc = "poll"
    /\ traveller_onboard
    /\ beeps = <<Chime>>
    /\ move_elapsed = 0
    /\ current_position = FLOOR_2
    /\ destination = FLOOR_3

\* C18: when handle_inputs() accepts a pickup selection for floor p with the
\* destination switch at floor d # p, the state after it has
\* traveller_present, traveller_floor = p, traveller_dest = d and
\* destination = p; traveller_onboard, the position, current_floor and both
\* counters are unchanged; the acknowledgement tone is emitted and the door
\* animation is not started, which only a pickup or a drop-off does.  (The
\* selection is the one floor the button, the digit, or both name.)
C18_AcceptedIntake ==
    /\ [][\A p \in Floors :
             (pc = "select" /\ Named = {p} /\ 4 * switch_bits # p) =>
                /\ traveller_present'
                /\ traveller_floor' = p
                /\ traveller_dest' = 4 * switch_bits
                /\ destination' = p
                /\ UNCHANGED <<traveller_onboard, current_position,
                               current_floor, floors_with_traveller,
                               floors_without_traveller>>
                /\ beeps' = <<Ack>>
                /\ UNCHANGED <<led_animating, led_elapsed, leds>>]_vars
    /\ [][(led_animating' /\ led_elapsed' = 0
             /\ (~led_animating \/ led_elapsed # 0)) =>
             (pc = "motion" /\ beeps' = <<Chime>>)]_vars

\* A request from floor 3 to floor 1 has just been accepted with the cabin
\* at floor 0.
C18_Witness ==
    /\ pc = "service"
    /\ traveller_present
    /\ beeps = <<Ack>>
    /\ traveller_floor = FLOOR_3
    /\ traveller_dest = FLOOR_1
    /\ destination = FLOOR_3
    /\ current_position = FLOOR_0

DoorsClosed == {"LED_L1", "LED_L2"}
DoorsOpen == {"LED_L0", "LED_L3"}

\* C19: dt milliseconds after the trigger service_led_animation() shows
\* closed for dt < 400, open for 400 <= dt < 800, closed (closing) for
\* 800 <= dt < 1200 and closed from 1200 on, two of the four indicators
\* each; on reaching the last window the animation stops itself and the
\* closed pattern stays until the next trigger; a trigger, also one during
\* a running animation, restarts the count from the first window.
C19_DoorPhases ==
    /\ [][(pc = "service" /\ led_animating) =>
             /\ leds' = (IF led_elapsed' < 400 THEN DoorsClosed
                         ELSE IF led_elapsed' < 800 THEN DoorsOpen
                         ELSE DoorsClosed)
             /\ Cardinality(leds') = 2
             /\ led_animating' = (led_elapsed' < 1200)]_vars
    /\ [][(led_animating /\ ~led_animating') => leds' = DoorsClosed]_vars
    /\ [][~led_animating => leds' = leds]_vars
    /\ [][(pc = "motion" /\ beeps' # <<>>) =>
             (led_animating' /\ led_elapsed' = 0)]_vars
    /\ [][(led_animating /\ led_elapsed' < led_elapsed) =>
             (led_animating' /\ led_elapsed' = 0 /\ beeps' = <<Chime>>)]_vars

\* A pickup has triggered the animation again while the open pattern of the
\* animation started by the drop-off before it was still showing.
C19_Witness ==
    /\ traveller_onboard
    /\ led_animating
    /\ led_elapsed = 0
    /\ leds = DoorsOpen

\* C20 as stated: in every loop pass in which the cabin moved or a request
\* transition occurred (a request accepted, a pickup, a drop-off) the flag
\* moved is set so that the status panel is printed; no request transition
\* goes unprinted.
C20_TransitionsProjected ==
    [][(\/ current_position' # current_position
        \/ traveller_present' # traveller_present
        \/ traveller_onboard' # traveller_onboard) =>
          (moved' \/ projected')]_vars

\* C20, amended: the flag moved is set by a change of position and by
\* nothing else (and at startup); the panel is printed in exactly the
\* passes in which the flag is set, and the flag is cleared with the print.
\* A drop-off, which always comes with a move, is printed; the acceptance
\* of a request and a pickup at the floor where the cabin stands set no
\* flag and print nothing.
C20_MovesProjected ==
    /\ [][pc = "motion" =>
             /\ projected' = (moved \/ current_position' # current_position)
             /\ ~moved']_vars
    /\ [][pc # "motion" => (~projected' /\ moved' = moved)]_vars
    /\ [][(traveller_onboard /\ ~traveller_onboard') => projected']_vars
    /\ [][(~traveller_present /\ traveller_present') =>
             (~projected' /\ ~moved')]_vars

\* The traveller has just boarded at the floor where the cabin stood, and
\* the pass has printed nothing.
C20_Witness ==
    /\ pc = "poll"
    /\ traveller_onboard
    /\ beeps = <<Chime>>
    /\ ~projected
    /\ ~moved

\* C21: a handle_inputs() call with no button event and no serial character
\* or a character outside '0'..'3' leaves the cabin, the request and the
\* counters unchanged and emits no tone, in every reachable state (guard
\* shut or open) and for every value of the destination switch.
C21_NoSelectionNoOp ==
    /\ [][(pc = "select" /\ btn = NO_BUTTON_PUSHED
             /\ serial_input \notin Digits) =>
             UNCHANGED <<cabin, request, counters, beeps, door, accepted>>]_vars
    /\ [][pc = "poll" =>
             UNCHANGED <<cabin, request, counters, beeps, door, accepted>>]_vars

\* handle_inputs() has read the character 's' and no button, with the
\* switch at floor 2 and the cabin idle at floor 1: the chain is about to
\* pass it by.
C21_Witness ==
    /\ pc = "select"
    /\ btn = NO_BUTTON_PUSHED
    /\ serial_input = CharS
    /\ switch_bits = 2
    /\ current_position = FLOOR_1

\* C22 as stated: a button or digit that arrives while a request is active
\* or the cabin is travelling is discarded; no later poll accepts it once
\* the system is idle.
C22_BusyInputsLost ==
    [][(~traveller_present /\ traveller_present') => taken # "busy"]_vars

\* C22, amended: every handle_inputs() call takes what is waiting before it
\* tests the guard, so nothing waits across a call; what a call with the
\* guard shut took is dropped with the call, and a request is accepted only
\* from the input taken by the same call, with the guard open.  An input
\* that arrived with the cabin still busy is lost only if a call with the
\* guard shut took it: one that arrives after the last such call is taken,
\* and can be accepted, by the call that follows the drop-off.
C22_ReadBeforeGuard ==
    /\ [][pc = "poll" => (pending' = "none" /\ taken' = pending)]_vars
    /\ [][(pc = "poll" /\ InputsBlocked) =>
             (pc' = "service" /\ btn' = NO_BUTTON_PUSHED
              /\ serial_input' = NoChar)]_vars
    /\ [](pc # "select" => (btn = NO_BUTTON_PUSHED /\ serial_input = NoChar))
    /\ [](pc \in {"select", "service"} => pending = "none")
    /\ [][(~traveller_present /\ traveller_present') =>
             /\ pc = "select"
             /\ ~InputsBlocked
             /\ taken # "none"
             /\ Named # {}]_vars

\* A handle_inputs() call has just taken, and dropped at the shut guard, an
\* input that arrived with the traveller onboard.
C22_Witness ==
    /\ pc = "service"
    /\ traveller_onboard
    /\ taken = "busy"
    /\ pending = "none"

\* C23 as stated: the pickup resets the stored pickup floor to UNDEF_FLOOR
\* while it copies the requested destination into destination; with the
\* traveller onboard the request names no pickup floor.
C23_PickupFloorCleared ==
    /\ [][(traveller_present /\ ~traveller_present') =>
             (traveller_floor' = UNDEF_FLOOR
              /\ destination' = traveller_dest)]_vars
    /\ [](traveller_onboard => traveller_floor = UNDEF_FLOOR)

\* C23, amended: the pickup copies traveller_dest into destination and
\* resets traveller_dest, and with it the floor of the marker on the
\* display (last_traveller_floor), to UNDEF_FLOOR; traveller_floor is not
\* written: it still names the pickup floor while the traveller is onboard
\* and after the drop-off, until the next request is accepted.
C23_PickupKeepsFloor ==
    /\ [][(traveller_present /\ ~traveller_present') =>
             /\ destination' = traveller_dest
             /\ traveller_dest' = UNDEF_FLOOR
             /\ last_traveller_floor' = UNDEF_FLOOR
             /\ traveller_floor' = traveller_floor
             /\ traveller_floor' = current_position']_vars
    /\ [][traveller_floor' # traveller_floor =>
             (pc = "select" /\ traveller_present')]_vars
    /\ [](traveller_floor \in Floors)
    /\ [](traveller_present =>
             (traveller_dest \in Floors
              /\ last_traveller_floor = traveller_floor))
    /\ [](~traveller_present =>
             (traveller_dest = UNDEF_FLOOR
              /\ last_traveller_floor = UNDEF_FLOOR))

\* The traveller picked up at floor 2 is onboard and the cabin has left the
\* floor: traveller_floor still names floor 2.
C23_Witness ==
    /\ traveller_onboard
    /\ traveller_floor = FLOOR_2
    /\ traveller_dest = UNDEF_FLOOR
    /\ last_traveller_floor = UNDEF_FLOOR
    /\ current_position = FLOOR_2 + 1

====
